---- MODULE Spec2Model ----
\* The client core of raft-lite (client/actions.go): leader lookup with a cached
\* leader, exponential backoff, and the submit / poll / resubmit protocol of
\* ExecuteActionRequest and ExecuteQueryRequest, run against a cluster stub.
EXTENDS Integers, Sequences, FiniteSets, TLC

\* ------------------------------------------------------------------ constants

maxBackOffDuration == 1600

initBackOffDuration == 20

maxCheckCountBeforeRetry == 6

\* ------------------------------------------------------------------ bounds

\* number of cluster members in core.nl
NumNodes == 2

\* RequestIDs the command builder hands out
MaxRequestID == 2

\* the count of consecutive backoff fail steps saturates here
MaxFails == 8

\* ------------------------------------------------------------------ values

\* a nil *rpccore.NodeID
Nil == 0

\* core.nl
nl == 1 .. NumNodes

RequestIDs == 1 .. MaxRequestID

\* a nil *string (TSMRequestInfo.Err, QueryRes.QueryErr)
NoErr == "nil"

\* messages of a state machine that rejected an action
ActionErrs == {"insufficient funds"}

\* messages of a query that failed in the state machine
QueryErrs == {"key not found"}

\* the query built by sm.NewTSMLatestRequestQuery(core.clientID)
LatestRequestQuery == "latestRequest"

\* the domain queries of the front end (sm.NewTSMDataQuery(key))
DataQueries == {"k1"}

\* a nil QueryRes.Data
NoData == [Kind |-> "nil"]

\* sm.TSMRequestInfo
RequestInfo(id, err) == [Kind |-> "TSMRequestInfo", RequestID |-> id, Err |-> err]

\* the payload of a data query's answer
DataValues == {[Kind |-> "value", Value |-> 7]}

\* sm.TSMAction, as far as the client reads it: its RequestID
Action(id) == [RequestID |-> id]


\* mutant: the request is built around a command with another RequestID
ActionReqRenumbered(act) == [Cmd |-> [act EXCEPT !.RequestID = @ + 1]]

\* ActionReq{Cmd: act}
ActionReq(act) == [Cmd |-> act]

\* act.GetRequestID()
GetRequestID(act) == act.RequestID

\* QueryReq{Cmd: query}
QueryReq(query) == [Cmd |-> query]

\* the reply structs
LeaderRes(hasLeader, id) == [HasLeader |-> hasLeader, LeaderID |-> id]

ActionRes(started) == [Started |-> started]

QueryRes(success, data, qerr) == [Success |-> success, Data |-> data, QueryErr |-> qerr]

\* what callRPC gives back: err # nil (Err TRUE, the reply left zero) or a reply
TransportErr(zero) == [Err |-> TRUE, Res |-> zero]

Reply(res) == [Err |-> FALSE, Res |-> res]

\* the RPC of the last client step (ghost)
NoRPC == [Method |-> "none"]

RPC(method, to, req, out) == [Method |-> method, To |-> to, Req |-> req, Out |-> out]

\* what an operation returned (ghost of the caller's view)
NoRet == [Kind |-> "none"]

ActionRet(ok, msg) == [Kind |-> "action", Success |-> ok, Msg |-> msg]

QueryRet(data, err) == [Kind |-> "query", Data |-> data, Err |-> err]

\* the callers that share one ClientCore in the concurrent specification
Callers == {"a", "b"}

VARIABLES
    ActBuilder,        \* core.ActBuilder: the last RequestID it handed out
    leaderID,          \* core.leaderID: Nil or a node
    backOffDuration,   \* core.backOffDuration
    pc,                \* "idle", "lookForLeader", "callRPC"
    ctx,               \* the function that called lookForLeader / callRPC
    op,                \* the operation running or last run
    actReq,            \* ExecuteActionRequest's actReq.Cmd
    reqID,             \* ExecuteActionRequest's reqID
    queryReq,          \* the QueryReq.Cmd of the operation
    i,                 \* the poll loop's counter
    leader,            \* the caller's local `leader`
    ret,               \* the value the last operation returned
    cmd,               \* ghost: the argument of the running invocation
    rpc,               \* ghost: the RPC of the last client step
    sleeps,            \* ghost: the time.Sleep durations of the last client step
    nFails,            \* ghost: logErrAndBackoff calls since the last reset
    polls,             \* ghost: polls since the last accepted ActionRequest, -1: none accepted
    pollsAtSend,       \* ghost: `polls` when the last client step issued an ActionRequest
    history,           \* whether the ghosts are recorded (fixed by Init)
    executed,          \* stub: per RequestID, "NotExecuted" or the recorded Err
    execCount,         \* stub: per RequestID, side effects applied
    latest,            \* stub: the client's latest RequestInfo, or NoData
    pending,           \* stub: actions started and not yet applied
    stableLeader,      \* environment: Nil, or the leader every member agrees on
    answering,         \* environment: Nil, or the only member that answers a LeaderRequest
    at,                \* concurrent callers: the statement each caller is at
    lead,              \* concurrent callers: each caller's local `leader`
    dur,               \* concurrent callers: the duration a caller has computed at line 285
    cleared            \* ghost: the caller whose fail step last cleared the cache

clientVars == <<ActBuilder, leaderID, backOffDuration, pc, ctx, op, actReq, reqID, queryReq, i,
                leader, ret>>

ghostVars == <<cmd, rpc, sleeps, nFails, polls, pollsAtSend, history>>

stubVars == <<executed, execCount, latest, pending>>

\* the state of the callers that share the ClientCore without serialization
concVars == <<at, lead, dur, cleared>>

vars == <<clientVars, ghostVars, stubVars, stableLeader, answering, concVars>>

\* a ghost's new value: x when the history is recorded, its initial value d otherwise
Hist(x, d) == IF history THEN x ELSE d


\* ------------------------------------------------------------------ cluster stub

NotExecuted == "NotExecuted"

\* the stub's record of the client's latest request, as a QueryRes: a
\* TSMRequestInfo in Data, or a QueryErr when it has none on record (the type
\* assertion of checkActionRequest needs a TSMRequestInfo whenever QueryErr is nil)
LatestRequestAnswer(info) ==
    IF info = NoData
    THEN QueryRes(TRUE, NoData, "no request info")
    ELSE QueryRes(TRUE, info, NoErr)

\* utils.Random(lo, hi): any integer of lo..hi
Random(lo, hi) == lo .. hi

\* what a LeaderRequest to pl can give back
LeaderRequestOutcomes(pl) ==
    IF stableLeader # Nil
    THEN {Reply(LeaderRes(TRUE, stableLeader))}
    ELSE IF answering # Nil /\ pl = answering
    THEN {Reply(LeaderRes(TRUE, l)) : l \in nl}
    ELSE IF answering # Nil
    THEN {TransportErr(LeaderRes(FALSE, Nil)), Reply(LeaderRes(FALSE, Nil))}
    ELSE {TransportErr(LeaderRes(FALSE, Nil)), Reply(LeaderRes(FALSE, Nil))}
         \cup {Reply(LeaderRes(TRUE, l)) : l \in nl}

\* what an ActionRequest to `to` can give back, and whether the node took the action:
\* a lost request, a lost response, a decline, an acceptance
ActionRequestOutcomes(to) ==
    LET lost     == [Out |-> TransportErr(ActionRes(FALSE)), Received |-> FALSE]
        respLost == [Out |-> TransportErr(ActionRes(FALSE)), Received |-> TRUE]
        declined == [Out |-> Reply(ActionRes(FALSE)), Received |-> FALSE]
        started  == [Out |-> Reply(ActionRes(TRUE)), Received |-> TRUE]
    IN  IF stableLeader # Nil /\ to = stableLeader THEN {started}
        ELSE {lost, respLost, declined, started}

QueryFailures ==
    {TransportErr(QueryRes(FALSE, NoData, NoErr)), Reply(QueryRes(FALSE, NoData, NoErr))}

\* answers to the latest-request query: the stub's record, or (from a member that
\* lags) nothing or the record of any request executed earlier
LatestRequestOutcomes(to) ==
    IF stableLeader # Nil /\ to = stableLeader
    THEN {Reply(LatestRequestAnswer(latest))}
    ELSE QueryFailures
         \cup {Reply(LatestRequestAnswer(NoData))}
         \cup {Reply(LatestRequestAnswer(RequestInfo(r, executed[r]))) :
                 r \in {x \in RequestIDs : executed[x] # NotExecuted}}

\* answers to a data query: a payload, a query error, or both fields set
DataQueryOutcomes(to) ==
    LET answers == {Reply(QueryRes(TRUE, d, e)) :
                      d \in DataValues \cup {NoData}, e \in QueryErrs \cup {NoErr}}
    IN  IF stableLeader # Nil /\ to = stableLeader THEN answers
        ELSE QueryFailures \cup answers

QueryRequestOutcomes(to, q) ==
    IF q.Cmd = LatestRequestQuery THEN LatestRequestOutcomes(to) ELSE DataQueryOutcomes(to)

\* the stub applies a started action: the first time it executes it (the state
\* machine accepts or rejects it) and counts the side effect; a RequestID it has
\* executed is a no-op that reports the original outcome
ClusterApply(r) ==
    /\ r \in pending
    /\ pending' = pending \ {r}
    /\ IF executed[r] = NotExecuted
       THEN \E e \in ActionErrs \cup {NoErr} :
              /\ executed' = [executed EXCEPT ![r] = e]
              /\ execCount' = [execCount EXCEPT ![r] = @ + 1]
              /\ latest' = RequestInfo(r, e)
       ELSE /\ latest' = RequestInfo(r, executed[r])
            /\ UNCHANGED <<executed, execCount>>
    /\ UNCHANGED <<clientVars, ghostVars, stableLeader, answering, concVars>>

\* a started action is lost with the leader that took it
ClusterDrop(r) ==
    /\ stableLeader = Nil
    /\ r \in pending
    /\ pending' = pending \ {r}
    /\ UNCHANGED <<clientVars, ghostVars, executed, execCount, latest,
                   stableLeader, answering, concVars>>

\* from here on every member reports leader l and every RPC to l succeeds; the
\* other members still answer an ActionRequest or QueryRequest in any way
Stabilize(l) ==
    /\ stableLeader = Nil
    /\ answering = Nil
    /\ stableLeader' = l
    /\ UNCHANGED <<clientVars, ghostVars, stubVars, answering, concVars>>

\* from here on member m answers every LeaderRequest with a leader, and every other
\* member fails or reports no leader
KeepAnswering(m) ==
    /\ stableLeader = Nil
    /\ answering = Nil
    /\ answering' = m
    /\ UNCHANGED <<clientVars, ghostVars, stubVars, stableLeader, concVars>>

\* ------------------------------------------------------------------ backoff

\* the fields of ClientCore a handler changes, with the ghosts that follow them
Core ==
    [leaderID |-> leaderID, backOffDuration |-> backOffDuration,
     sleeps |-> <<>>, nFails |-> nFails]

\* mutant: the backoff is not reset
resetBackOffDurationSkipped(c) == c

SetCore(c) ==
    /\ leaderID' = c.leaderID
    /\ backOffDuration' = c.backOffDuration
    /\ sleeps' = Hist(c.sleeps, <<>>)
    /\ nFails' = Hist(c.nFails, 0)

resetBackOffDuration(c) ==
    [c EXCEPT !.backOffDuration = initBackOffDuration, !.nFails = 0]

\* mutant: the doubling is not capped
NextBackOffDurationUncapped(d) == d * 2

\* mutant: the duration grows by the initial duration instead of doubling
NextBackOffDurationAdditive(d) ==
    IF maxBackOffDuration < d + initBackOffDuration
    THEN maxBackOffDuration
    ELSE d + initBackOffDuration

\* utils.Min(maxBackOffDuration, d * 2)
NextBackOffDuration(d) ==
    IF maxBackOffDuration < d * 2 THEN maxBackOffDuration ELSE d * 2

\* mutant: the fail step keeps the cached leader
logErrAndBackoffKeepsLeader(c) ==
    [c EXCEPT !.sleeps = Append(@, c.backOffDuration),
              !.backOffDuration = NextBackOffDuration(c.backOffDuration),
              !.nFails = IF @ < MaxFails THEN @ + 1 ELSE @]

logErrAndBackoff(c) ==
    [c EXCEPT !.leaderID = Nil,
              !.sleeps = Append(@, c.backOffDuration),
              !.backOffDuration = NextBackOffDuration(c.backOffDuration),
              !.nFails = IF @ < MaxFails THEN @ + 1 ELSE @]

\* ------------------------------------------------------------------ client

\* the locals of an operation that has returned
Return(r) ==
    /\ ret' = r
    /\ pc' = "idle"
    /\ ctx' = "none"
    /\ actReq' = ActionReq(Action(0))
    /\ reqID' = 0
    /\ queryReq' = QueryReq("")
    /\ i' = 0
    /\ leader' = Nil

\* the actions a caller can pass: one the builder has just made, with a fresh
\* RequestID, or the last one again
BuiltActions == {Action(id) : id \in {ActBuilder + 1} \cap RequestIDs}

ResubmittedActions == {Action(id) : id \in {ActBuilder} \cap RequestIDs}

\* ExecuteActionRequest is called: actReq, queryReq and reqID are set from act
ExecuteActionRequest(act) ==
    /\ pc = "idle"
    /\ ActBuilder' = IF act.RequestID > ActBuilder THEN act.RequestID ELSE ActBuilder
    /\ op' = "ExecuteActionRequest"
    /\ cmd' = act
    /\ actReq' = ActionReq(act)
    /\ queryReq' = QueryReq(LatestRequestQuery)
    /\ reqID' = GetRequestID(act)
    /\ ctx' = "sendActionRequest"
    /\ pc' = "lookForLeader"
    /\ ret' = NoRet
    /\ rpc' = NoRPC
    /\ sleeps' = <<>>
    /\ polls' = -1
    /\ pollsAtSend' = -1
    /\ UNCHANGED <<leaderID, backOffDuration, i, leader, nFails, history, stubVars,
                   stableLeader, answering, concVars>>

\* ExecuteQueryRequest is called
ExecuteQueryRequest(query) ==
    /\ pc = "idle"
    /\ op' = "ExecuteQueryRequest"
    /\ queryReq' = QueryReq(query)
    /\ ctx' = "ExecuteQueryRequest"
    /\ pc' = "lookForLeader"
    /\ ret' = NoRet
    /\ rpc' = NoRPC
    /\ sleeps' = <<>>
    /\ polls' = -1
    /\ pollsAtSend' = -1
    /\ UNCHANGED <<ActBuilder, leaderID, backOffDuration, actReq, reqID, i, leader, cmd,
                   nFails, history, stubVars, stableLeader, answering, concVars>>

\* mutant: a member is returned, not the cache
LookForLeaderCachedAnyMember ==
    /\ pc = "lookForLeader"
    /\ leaderID # Nil
    /\ leader' \in nl
    /\ pc' = "callRPC"
    /\ rpc' = NoRPC
    /\ sleeps' = <<>>
    /\ pollsAtSend' = -1
    /\ UNCHANGED <<ActBuilder, leaderID, backOffDuration, ctx, op, actReq, reqID, queryReq,
                   i, ret, cmd, nFails, polls, history, stubVars,
                   stableLeader, answering, concVars>>

\* lookForLeader with the cache set: the loop is not entered
LookForLeaderCached ==
    /\ pc = "lookForLeader"
    /\ leaderID # Nil
    /\ leader' = leaderID
    /\ pc' = "callRPC"
    /\ rpc' = NoRPC
    /\ sleeps' = <<>>
    /\ pollsAtSend' = -1
    /\ UNCHANGED <<ActBuilder, leaderID, backOffDuration, ctx, op, actReq, reqID, queryReq,
                   i, ret, cmd, nFails, polls, history, stubVars,
                   stableLeader, answering, concVars>>

\* mutant: the last member is never picked
PickedMembersButLast == {k + 1 : k \in Random(0, NumNodes - 2)} \cap nl

\* the member lookForLeader asks: core.nl[utils.Random(0, len(core.nl)-1)]
PickedMembers == {k + 1 : k \in Random(0, NumNodes - 1)} \cap nl

\* mutant: HasLeader is not looked at
LeaderFoundWithoutHasLeader(out) == ~out.Err

\* err == nil and leaderRes.HasLeader
LeaderFound(out) == ~out.Err /\ out.Res.HasLeader

\* one round of lookForLeader's loop with member pl picked: a LeaderRequest to pl
LookForLeaderAttemptAt(pl) ==
    /\ pc = "lookForLeader"
    /\ leaderID = Nil
    /\ pl \in PickedMembers
    /\   \E out \in LeaderRequestOutcomes(pl) :
           LET found == LeaderFound(out)
               c == IF found
                    THEN resetBackOffDuration([Core EXCEPT !.leaderID = out.Res.LeaderID])
                    ELSE logErrAndBackoff(Core)
           IN  /\ SetCore(c)
               /\ rpc' = Hist(RPC("LeaderRequest", pl, "", out), NoRPC)
               /\ leader' = IF found THEN c.leaderID ELSE leader
               /\ pc' = IF found THEN "callRPC" ELSE "lookForLeader"
    /\ pollsAtSend' = -1
    /\ UNCHANGED <<ActBuilder, ctx, op, actReq, reqID, queryReq, i, ret, cmd, polls,
                   history, stubVars, stableLeader, answering, concVars>>

\* one round of lookForLeader's loop: a LeaderRequest to a random member
LookForLeaderAttempt == \E pl \in nl : LookForLeaderAttemptAt(pl)

\* mutant: a decline is not an error
SendFailedTransportOnly(out) == out.Err

\* sendActionRequest returns an err: a transport error, or a decline
SendFailed(out) == out.Err \/ ~out.Res.Started

\* one round of ExecuteActionRequest's outer loop, from the ActionRequest on
SendActionRequest ==
    /\ pc = "callRPC"
    /\ ctx = "sendActionRequest"
    /\ \E o \in ActionRequestOutcomes(leader) :
         LET failed == SendFailed(o.Out)
             c == IF failed THEN logErrAndBackoff(Core) ELSE resetBackOffDuration(Core)
         IN  /\ SetCore(c)
             /\ rpc' = Hist(RPC("ActionRequest", leader, actReq, o.Out), NoRPC)
             /\ pending' = IF o.Received THEN pending \cup {actReq.Cmd.RequestID} ELSE pending
             /\ pollsAtSend' = Hist(polls, -1)
             /\ polls' = Hist(IF failed THEN -1 ELSE 0, -1)
             /\ ctx' = IF failed THEN "sendActionRequest" ELSE "checkActionRequest"
    /\ i' = 0
    /\ pc' = "lookForLeader"
    /\ leader' = Nil
    /\ UNCHANGED <<ActBuilder, op, actReq, reqID, queryReq, ret, cmd, history, executed,
                   execCount, latest, stableLeader, answering, concVars>>

\* what checkActionRequest returns for the QueryRequest's outcome: (info, err)
checkActionRequest(out) ==
    IF ~out.Err /\ out.Res.Success
    THEN IF out.Res.QueryErr = NoErr
         THEN [info |-> out.Res.Data, err |-> FALSE]
         ELSE [info |-> NoData, err |-> FALSE]
    ELSE [info |-> NoData, err |-> TRUE]

\* mutant: any RequestInfo counts as the confirmation
MatchesAnyInfo(info, id) == info # NoData

\* info != nil && info.RequestID == reqID
Matches(info, id) == info # NoData /\ info.RequestID = id

\* mutant: one poll too many
PollLoopCondInclusive(k) == k <= maxCheckCountBeforeRetry

\* the poll loop's condition
PollLoopCond(k) == k < maxCheckCountBeforeRetry

\* mutant: info.Err is not looked at
ActionOutcomeIgnoresErr(info) == ActionRet(TRUE, "action success")

\* what ExecuteActionRequest returns for a matching info
ActionOutcome(info) ==
    IF info.Err # NoErr THEN ActionRet(FALSE, info.Err) ELSE ActionRet(TRUE, "action success")

\* mutant: the fail step for a poll without confirmation is taken after a failed
\* poll too
AfterPollAlwaysBacksOff(r, c) ==
    LET c1 == IF r.err THEN logErrAndBackoff(c) ELSE c
    IN  IF Matches(r.info, reqID) THEN resetBackOffDuration(c1)
        ELSE logErrAndBackoff(c1)

\* mutant: the fail step for a poll that got an answer is taken before the
\* RequestInfo is looked at
AfterPollBacksOffBeforeMatch(r, c) ==
    LET c1 == logErrAndBackoff(c)
    IN  IF Matches(r.info, reqID) THEN resetBackOffDuration(c1)
        ELSE c1

\* the fail steps and the reset of one round of the poll loop, for what
\* checkActionRequest returned
AfterPoll(r, c) ==
    LET c1 == IF r.err THEN logErrAndBackoff(c) ELSE c
    IN  IF Matches(r.info, reqID) THEN resetBackOffDuration(c1)
        ELSE IF ~r.err THEN logErrAndBackoff(c1)
        ELSE c1

\* one round of the poll loop, from the QueryRequest on
CheckActionRequest ==
    /\ pc = "callRPC"
    /\ ctx = "checkActionRequest"
    /\ \E out \in QueryRequestOutcomes(leader, queryReq) :
         LET r == checkActionRequest(out)
             match == Matches(r.info, reqID)
             c2 == AfterPoll(r, Core)
         IN  /\ SetCore(c2)
             /\ rpc' = Hist(RPC("QueryRequest", leader, queryReq, out), NoRPC)
             /\ polls' = Hist(polls + 1, -1)
             /\ IF match
                THEN Return(ActionOutcome(r.info))
                ELSE /\ i' = IF PollLoopCond(i + 1) THEN i + 1 ELSE 0
                     /\ ctx' = IF PollLoopCond(i + 1) THEN "checkActionRequest"
                               ELSE "sendActionRequest"
                     /\ pc' = "lookForLeader"
                     /\ leader' = Nil
                     /\ UNCHANGED <<actReq, reqID, queryReq, ret>>
    /\ pollsAtSend' = -1
    /\ UNCHANGED <<ActBuilder, op, cmd, history, stubVars, stableLeader, answering, concVars>>

\* what ExecuteQueryRequest returns for a successful QueryRes
QueryOutcome(res) ==
    IF res.QueryErr = NoErr THEN QueryRet(res.Data, NoErr) ELSE QueryRet(NoData, res.QueryErr)

\* mutant: an answer that carries a query error is retried
QuerySucceededWithoutQueryErr(out) ==
    ~out.Err /\ out.Res.Success /\ out.Res.QueryErr = NoErr

\* err == nil and queryRes.Success
QuerySucceeded(out) == ~out.Err /\ out.Res.Success

\* one round of ExecuteQueryRequest's loop, from the QueryRequest on
ExecuteQueryRequestStep ==
    /\ pc = "callRPC"
    /\ ctx = "ExecuteQueryRequest"
    /\ \E out \in QueryRequestOutcomes(leader, queryReq) :
         LET ok == QuerySucceeded(out)
             c == IF ok THEN resetBackOffDuration(Core) ELSE logErrAndBackoff(Core)
         IN  /\ SetCore(c)
             /\ rpc' = Hist(RPC("QueryRequest", leader, queryReq, out), NoRPC)
             /\ IF ok
                THEN Return(QueryOutcome(out.Res))
                ELSE /\ pc' = "lookForLeader"
                     /\ leader' = Nil
                     /\ UNCHANGED <<ctx, actReq, reqID, queryReq, i, ret>>
    /\ pollsAtSend' = -1
    /\ UNCHANGED <<ActBuilder, op, cmd, polls, history, stubVars,
                   stableLeader, answering, concVars>>

\* ------------------------------------------------------------------ specification

\* NewClientCore, and a cluster that has executed nothing
InitProgram ==
    /\ ActBuilder = 0
    /\ leaderID = Nil
    /\ backOffDuration = initBackOffDuration
    /\ pc = "idle"
    /\ ctx = "none"
    /\ op = "none"
    /\ actReq = ActionReq(Action(0))
    /\ reqID = 0
    /\ queryReq = QueryReq("")
    /\ i = 0
    /\ leader = Nil
    /\ ret = NoRet
    /\ cmd = Action(0)
    /\ rpc = NoRPC
    /\ sleeps = <<>>
    /\ nFails = 0
    /\ polls = -1
    /\ pollsAtSend = -1
    /\ executed = [r \in RequestIDs |-> NotExecuted]
    /\ execCount = [r \in RequestIDs |-> 0]
    /\ latest = NoData
    /\ pending = {}
    /\ stableLeader = Nil
    /\ at = [c \in Callers |-> "idle"]
    /\ lead = [c \in Callers |-> Nil]
    /\ dur = [c \in Callers |-> 0]
    /\ cleared = "none"

Init ==
    /\ history = TRUE
    /\ answering = Nil
    /\ InitProgram

ClientStep ==
    \/ LookForLeaderCached
    \/ LookForLeaderAttempt
    \/ SendActionRequest
    \/ CheckActionRequest
    \/ ExecuteQueryRequestStep

Next ==
    \/ \E act \in BuiltActions \cup ResubmittedActions : ExecuteActionRequest(act)
    \/ \E query \in DataQueries : ExecuteQueryRequest(query)
    \/ ClientStep
    \/ \E r \in RequestIDs : ClusterApply(r)
    \/ \E r \in RequestIDs : ClusterDrop(r)

Spec == Init /\ [][Next]_vars

\* The same client in an environment that can settle on a leader for good. The
\* client thread keeps running (an RPC returns or times out, a sleep ends) and the
\* cluster applies what it has started. The ghosts are not recorded.
InitLive ==
    /\ history = FALSE
    /\ answering = Nil
    /\ InitProgram

NextLive ==
    \/ Next
    \/ \E l \in nl : Stabilize(l)

LiveSpec ==
    /\ InitLive
    /\ [][NextLive]_vars
    /\ WF_vars(ClientStep)
    /\ WF_vars(\E r \in RequestIDs : ClusterApply(r))

\* The same client in an environment where, from some point on, one member alone
\* answers LeaderRequests. The random choice of lookForLeader is fair: a member that
\* can be picked in every round is picked in some round. The ghosts are not recorded.
NextDiscovery ==
    \/ Next
    \/ \E m \in nl : KeepAnswering(m)

DiscoverySpec ==
    /\ InitLive
    /\ [][NextDiscovery]_vars
    /\ \A m \in nl : WF_vars(LookForLeaderAttemptAt(m))

\* ------------------------------------------------------------------ concurrent callers

\* Two callers run ExecuteQueryRequest on one ClientCore with no lock. Each step
\* is one access to core.leaderID or core.backOffDuration, together with the
\* statements before it that touch only locals or the network. A nil dereference
\* is a panic, which ends the process.

serialVars == <<ActBuilder, pc, ctx, op, actReq, reqID, queryReq, i, leader, ret>>

otherVars == <<serialVars, ghostVars, stubVars, stableLeader, answering>>

NoPanic == \A c \in Callers : at[c] # "panic"

\* ExecuteQueryRequest is called by c: its loop starts with lookForLeader
ConcExecuteQueryRequest(c) ==
    /\ NoPanic
    /\ at[c] = "idle"
    /\ at' = [at EXCEPT ![c] = "lookForLeader:251"]
    /\ UNCHANGED <<leaderID, backOffDuration, lead, dur, cleared, otherVars>>

\* mutant: the loop is never entered
CacheUnknownNever(l) == FALSE

\* lookForLeader's loop condition: core.leaderID == nil
CacheUnknown(l) == l = Nil

\* line 251: the loop condition is evaluated
ConcLoopCondition(c) ==
    /\ NoPanic
    /\ at[c] = "lookForLeader:251"
    /\ at' = [at EXCEPT ![c] = IF CacheUnknown(leaderID) THEN "lookForLeader:253"
                                ELSE "lookForLeader:268"]
    /\ UNCHANGED <<leaderID, backOffDuration, lead, dur, cleared, otherVars>>

\* lines 253-260 and 266: the LeaderRequest; an answer with a leader is stored in
\* the cache, anything else calls logErrAndBackoff
ConcLeaderRequest(c) ==
    /\ NoPanic
    /\ at[c] = "lookForLeader:253"
    /\ \E pl \in PickedMembers :
         \E out \in LeaderRequestOutcomes(pl) :
           IF LeaderFound(out)
           THEN /\ leaderID' = out.Res.LeaderID
                /\ at' = [at EXCEPT ![c] = "lookForLeader:261"]
           ELSE /\ leaderID' = leaderID
                /\ at' = [at EXCEPT ![c] = "logErrAndBackoff:278"]
    /\ UNCHANGED <<backOffDuration, lead, dur, cleared, otherVars>>

\* line 261: resetBackOffDuration
ConcResetBackOffDuration(c) ==
    /\ NoPanic
    /\ at[c] = "lookForLeader:261"
    /\ backOffDuration' = initBackOffDuration
    /\ at' = [at EXCEPT ![c] = "lookForLeader:262"]
    /\ UNCHANGED <<leaderID, lead, dur, cleared, otherVars>>

\* lines 262 and 268: return *core.leaderID
ConcReturnLeader(c) ==
    /\ NoPanic
    /\ at[c] \in {"lookForLeader:262", "lookForLeader:268"}
    /\ IF leaderID = Nil
       THEN /\ at' = [at EXCEPT ![c] = "panic"]
            /\ lead' = lead
       ELSE /\ at' = [at EXCEPT ![c] = "callRPC:360"]
            /\ lead' = [lead EXCEPT ![c] = leaderID]
    /\ UNCHANGED <<leaderID, backOffDuration, dur, cleared, otherVars>>

\* lines 360-374: the QueryRequest to the leader lookForLeader returned; a
\* successful one resets the backoff and returns, anything else calls
\* logErrAndBackoff
ConcQueryRequest(c) ==
    /\ NoPanic
    /\ at[c] = "callRPC:360"
    /\ \E out \in DataQueryOutcomes(lead[c]) :
         IF QuerySucceeded(out)
         THEN /\ backOffDuration' = initBackOffDuration
              /\ at' = [at EXCEPT ![c] = "idle"]
         ELSE /\ backOffDuration' = backOffDuration
              /\ at' = [at EXCEPT ![c] = "logErrAndBackoff:278"]
    /\ lead' = [lead EXCEPT ![c] = Nil]
    /\ UNCHANGED <<leaderID, dur, cleared, otherVars>>

\* line 278: core.leaderID = nil
ConcClearLeader(c) ==
    /\ NoPanic
    /\ at[c] = "logErrAndBackoff:278"
    /\ leaderID' = Nil
    /\ cleared' = c
    /\ at' = [at EXCEPT ![c] = "logErrAndBackoff:285"]
    /\ UNCHANGED <<backOffDuration, lead, dur, otherVars>>

\* lines 283-285: after the sleep, core.backOffDuration is read and doubled
ConcReadBackOffDuration(c) ==
    /\ NoPanic
    /\ at[c] = "logErrAndBackoff:285"
    /\ dur' = [dur EXCEPT ![c] = NextBackOffDuration(backOffDuration)]
    /\ at' = [at EXCEPT ![c] = "logErrAndBackoff:285w"]
    /\ UNCHANGED <<leaderID, backOffDuration, lead, cleared, otherVars>>

\* line 285: the doubled duration is stored; the caller's loop goes round
ConcWriteBackOffDuration(c) ==
    /\ NoPanic
    /\ at[c] = "logErrAndBackoff:285w"
    /\ backOffDuration' = dur[c]
    /\ dur' = [dur EXCEPT ![c] = 0]
    /\ at' = [at EXCEPT ![c] = "lookForLeader:251"]
    /\ UNCHANGED <<leaderID, lead, cleared, otherVars>>

NextConc ==
    \E c \in Callers :
      \/ ConcExecuteQueryRequest(c)
      \/ ConcLoopCondition(c)
      \/ ConcLeaderRequest(c)
      \/ ConcResetBackOffDuration(c)
      \/ ConcReturnLeader(c)
      \/ ConcQueryRequest(c)
      \/ ConcClearLeader(c)
      \/ ConcReadBackOffDuration(c)
      \/ ConcWriteBackOffDuration(c)

ConcSpec == InitLive /\ [][NextConc]_vars

\* ------------------------------------------------------------------ claims

\* the last operation was ExecuteActionRequest and it has returned
ActionReturned == pc = "idle" /\ op = "ExecuteActionRequest" /\ ret # NoRet

\* the last client step was a confirmation poll of ExecuteActionRequest
PollStep ==
    /\ op = "ExecuteActionRequest"
    /\ rpc.Method = "QueryRequest"
    /\ rpc.Req.Cmd = LatestRequestQuery

\* the poll of the last client step gave back a RequestInfo for the invocation's cmd
PollMatched ==
    /\ ~rpc.Out.Err
    /\ rpc.Out.Res.Success
    /\ rpc.Out.Res.QueryErr = NoErr
    /\ rpc.Out.Res.Data.Kind = "TSMRequestInfo"
    /\ rpc.Out.Res.Data.RequestID = cmd.RequestID

\* the RPC of the last client step ended in a transport error or a decline
RPCFailedOrDeclined ==
    \/ rpc.Out.Err
    \/ rpc.Method = "ActionRequest" /\ ~rpc.Out.Res.Started
    \/ rpc.Method = "QueryRequest" /\ ~rpc.Out.Res.Success

Min(a, b) == IF a < b THEN a ELSE b

RECURSIVE Pow2(_)
Pow2(n) == IF n = 0 THEN 1 ELSE 2 * Pow2(n - 1)

\* C1: ExecuteActionRequest returns only in a step whose poll gave back a
\* RequestInfo with the RequestID of cmd: it returns (true, "action success") when
\* that info has no Err and (false, msg) when its Err is msg; a poll that failed,
\* was declined, found nothing or found another RequestID does not return.
C1_ReturnOnlyOnMatchingInfo ==
    /\ ActionReturned =>
         /\ PollStep
         /\ PollMatched
         /\ ret = IF rpc.Out.Res.Data.Err = NoErr
                  THEN ActionRet(TRUE, "action success")
                  ELSE ActionRet(FALSE, rpc.Out.Res.Data.Err)
    /\ PollStep /\ ~PollMatched => pc # "idle" /\ ret = NoRet

\* the second command returned "not applied" with the state machine's message
C1_Witness ==
    /\ ActionReturned
    /\ cmd.RequestID = 2
    /\ executed[1] = NoErr
    /\ ret = ActionRet(FALSE, "insufficient funds")

\* what the stub recorded for RequestID r, as ExecuteActionRequest reports it
RecordedOutcome(r) ==
    IF executed[r] = NoErr
    THEN ActionRet(TRUE, "action success")
    ELSE ActionRet(FALSE, executed[r])

\* C2: once every member reports the same leader and every RPC to it succeeds,
\* and the cluster applies what it has started, a running ExecuteActionRequest
\* returns, with the outcome the stub recorded for the RequestID of its cmd.
C2_EventuallyReturns ==
    \A r \in RequestIDs :
      (stableLeader # Nil /\ op = "ExecuteActionRequest" /\ pc # "idle"
          /\ cmd.RequestID = r)
        ~> (/\ ActionReturned
            /\ cmd.RequestID = r
            /\ executed[r] # NotExecuted
            /\ ret = RecordedOutcome(r))

\* the second command returned from the settled leader, the cache holding it,
\* after the client had cached the other member
C2_Witness ==
    /\ stableLeader = 2
    /\ ActionReturned
    /\ cmd.RequestID = 2
    /\ leaderID = stableLeader
    /\ ret = ActionRet(FALSE, "insufficient funds")

\* C3: every ActionRequest of an invocation carries the ActionCommand the caller
\* passed, and the RequestID the polls are compared with is that command's.
C3_SameCommandEverySend ==
    /\ rpc.Method = "ActionRequest" => rpc.Req.Cmd = cmd
    /\ op = "ExecuteActionRequest" /\ pc # "idle" =>
         /\ actReq.Cmd = cmd
         /\ reqID = cmd.RequestID
    /\ pending \subseteq 1 .. ActBuilder

\* a resubmission after an exhausted poll round, for a command the stub has executed
C3_Witness ==
    /\ rpc.Method = "ActionRequest"
    /\ pollsAtSend = maxCheckCountBeforeRetry
    /\ executed[cmd.RequestID] # NotExecuted
    /\ rpc.Req.Cmd.RequestID = 2

\* C4: the stub applies at most one side effect per RequestID, whatever was lost
\* and resubmitted, and every return of ExecuteActionRequest reports the outcome
\* the stub recorded when it executed that RequestID.
C4_ExactlyOnce ==
    /\ \A r \in RequestIDs : execCount[r] <= 1
    /\ \A r \in RequestIDs : execCount[r] = 1 <=> executed[r] # NotExecuted
    /\ ActionReturned =>
         /\ executed[cmd.RequestID] # NotExecuted
         /\ ret = IF executed[cmd.RequestID] = NoErr
                  THEN ActionRet(TRUE, "action success")
                  ELSE ActionRet(FALSE, executed[cmd.RequestID])

\* the invocation returned while a resubmission of its command is still to be applied
C4_Witness ==
    /\ ActionReturned
    /\ cmd.RequestID \in pending
    /\ execCount[cmd.RequestID] = 1
    /\ executed[cmd.RequestID] # NoErr

\* C5: an ActionRequest that follows an accepted one is issued after exactly
\* maxCheckCountBeforeRetry polls, and no poll round has more polls than that.
C5_ResendAfterSixPolls ==
    /\ polls <= maxCheckCountBeforeRetry
    /\ rpc.Method = "ActionRequest" => pollsAtSend \in {-1, maxCheckCountBeforeRetry}

\* a resubmission after six polls that the leader accepted
C5_Witness ==
    /\ rpc.Method = "ActionRequest"
    /\ pollsAtSend = maxCheckCountBeforeRetry
    /\ ~RPCFailedOrDeclined
    /\ polls = 0

\* C6: initBackOffDuration <= backOffDuration <= maxBackOffDuration in every state.
C6_BackoffWithinBounds ==
    /\ initBackOffDuration <= backOffDuration
    /\ backOffDuration <= maxBackOffDuration

\* the backoff stays at the ceiling through further fail steps
C6_Witness ==
    /\ backOffDuration = maxBackOffDuration
    /\ nFails = MaxFails
    /\ sleeps = <<maxBackOffDuration>>

\* C7: after N fail steps since the last reset the duration is
\* min(initBackOffDuration * 2^N, maxBackOffDuration), and a fail step leaves the
\* double of what it slept, capped.
C7_BackoffAfterNFails ==
    /\ backOffDuration = Min(initBackOffDuration * Pow2(nFails), maxBackOffDuration)
    /\ Len(sleeps) = 1 /\ nFails > 0 =>
         backOffDuration = Min(sleeps[1] * 2, maxBackOffDuration)

\* six fail steps in a row: 1280, the last value under the ceiling
C7_Witness ==
    /\ nFails = 6
    /\ backOffDuration = 1280
    /\ sleeps = <<640>>

\* C8 (as stated): the cache is cleared only by an ActionRequest or QueryRequest
\* that failed in transport or was declined; a QueryRequest that succeeded leaves
\* the cache set.
C8_CacheClearedOnlyOnFailure ==
    /\ rpc.Method \in {"ActionRequest", "QueryRequest"} /\ leaderID = Nil =>
         RPCFailedOrDeclined
    /\ rpc.Method = "QueryRequest" /\ ~rpc.Out.Err /\ rpc.Out.Res.Success =>
         leaderID = rpc.To

\* C9: a QueryRequest of ExecuteQueryRequest that succeeds ends the operation in
\* that step, with the backoff at its initial value and no sleep: it returns the
\* query error when there is one and the data otherwise.
C9_QueryErrorReturned ==
    op = "ExecuteQueryRequest" /\ rpc.Method = "QueryRequest"
        /\ ~rpc.Out.Err /\ rpc.Out.Res.Success =>
      /\ pc = "idle"
      /\ backOffDuration = initBackOffDuration
      /\ sleeps = <<>>
      /\ ret = IF rpc.Out.Res.QueryErr # NoErr
               THEN QueryRet(NoData, rpc.Out.Res.QueryErr)
               ELSE QueryRet(rpc.Out.Res.Data, NoErr)

\* the query error came back although the answer carried data too
C9_Witness ==
    /\ op = "ExecuteQueryRequest"
    /\ pc = "idle"
    /\ rpc.Method = "QueryRequest"
    /\ rpc.Out.Res.Data # NoData
    /\ ret = QueryRet(NoData, "key not found")

\* C10: an ActionRequest or QueryRequest that fails in transport and one that is
\* declined leave the same state: the cache cleared, one fail step taken, the
\* operation still running and about to look for the leader; nothing is returned.
C10_FailureAndDeclineRetried ==
    rpc.Method \in {"ActionRequest", "QueryRequest"} /\ RPCFailedOrDeclined =>
      /\ leaderID = Nil
      /\ Len(sleeps) = 1
      /\ backOffDuration = Min(sleeps[1] * 2, maxBackOffDuration)
      /\ pc = "lookForLeader"
      /\ ret = NoRet
      /\ ctx = IF op = "ExecuteQueryRequest" THEN "ExecuteQueryRequest"
               ELSE IF rpc.Method = "ActionRequest" THEN "sendActionRequest"
               ELSE IF polls < maxCheckCountBeforeRetry THEN "checkActionRequest"
               ELSE "sendActionRequest"

\* a declined poll, the third of its round
C10_Witness ==
    /\ PollStep
    /\ ~rpc.Out.Err
    /\ ~rpc.Out.Res.Success
    /\ polls = 3
    /\ leaderID = Nil

\* lookForLeader is in its loop: the cache is unknown
Looking == pc = "lookForLeader" /\ leaderID = Nil

\* C11: while the cache is unknown every round of lookForLeader can pick every
\* member, whatever was picked before; and once one member alone answers
\* LeaderRequests, all others failing or reporting no leader, a fair random choice
\* makes lookForLeader return.
C11_DiscoveryNotStarved ==
    /\ [](Looking => \A m \in nl : ENABLED LookForLeaderAttemptAt(m))
    /\ (Looking /\ answering # Nil) ~> (pc = "callRPC")

\* lookForLeader has returned from the answer of the last member, the only one
\* that answers
C11_Witness ==
    /\ answering = NumNodes
    /\ pc = "callRPC"
    /\ leader # Nil
    /\ leaderID = leader
    /\ op # "none"

\* the RPC of the last client step was answered: no transport error, no decline
RPCAnswered == rpc.Method # "none" /\ ~RPCFailedOrDeclined

\* the LeaderRequest of the last client step was answered without naming a leader
NoLeaderKnown == rpc.Method = "LeaderRequest" /\ ~rpc.Out.Err /\ ~rpc.Out.Res.HasLeader

\* C12 as stated: right after any RPC that came back without a transport error and
\* without a decline, backOffDuration is the floor.
C12_ResetOnAnyAnsweredRPC == RPCAnswered => backOffDuration = initBackOffDuration

\* C12, amended: right after a LeaderRequest answered with a leader, an ActionRequest
\* answered started, a query of ExecuteQueryRequest answered success, or a poll
\* answered with the RequestInfo of cmd, backOffDuration is the floor and no fail
\* step was taken; a LeaderRequest answered without a leader and a poll answered
\* without the RequestInfo of cmd are followed by one fail step, which leaves
\* backOffDuration at twice the sleep, capped, and so above the floor.
C12_ResetOnUsefulAnswer ==
    RPCAnswered =>
      IF NoLeaderKnown \/ (PollStep /\ ~PollMatched)
      THEN /\ Len(sleeps) = 1
           /\ backOffDuration = Min(2 * sleeps[1], maxBackOffDuration)
           /\ backOffDuration > initBackOffDuration
      ELSE /\ sleeps = <<>>
           /\ backOffDuration = initBackOffDuration

\* a leader was learnt inside a poll round, after the poll before it had found nothing
C12_Witness ==
    /\ rpc.Method = "LeaderRequest"
    /\ rpc.Out.Res.HasLeader
    /\ ctx = "checkActionRequest"
    /\ polls = 2
    /\ backOffDuration = initBackOffDuration

\* the session fields that lookForLeader neither returns nor uses as its position
SessionFields == <<ActBuilder, leaderID, backOffDuration, ctx, op, actReq, reqID, queryReq, i, ret>>

\* C13: with the cache set, lookForLeader returns the cached node at once: no RPC is
\* made, no sleep is taken, and the cache, the backoff duration and every other
\* field of the session are what they were.
C13_CachedLookupChangesNothing ==
    [][pc = "lookForLeader" /\ leaderID # Nil /\ clientVars' # clientVars =>
         /\ pc' = "callRPC"
         /\ leader' = leaderID
         /\ rpc' = NoRPC
         /\ sleeps' = <<>>
         /\ UNCHANGED <<SessionFields, stubVars>>]_vars

\* the first poll of a round is about to go to the cached leader, which is not the
\* first member
C13_Witness ==
    /\ pc = "callRPC"
    /\ rpc = NoRPC
    /\ ctx = "checkActionRequest"
    /\ i = 0
    /\ leader = NumNodes
    /\ leaderID = leader

\* the LeaderRequest of the last client step was answered with a leader
LeaderKnown == rpc.Method = "LeaderRequest" /\ ~rpc.Out.Err /\ rpc.Out.Res.HasLeader

\* C14: with the cache unknown, lookForLeader returns only in the step in which a
\* LeaderRequest was answered with a leader: it caches and returns the LeaderID of
\* that answer and the backoff is at the floor. An answer without a leader and a
\* transport error both leave the cache unknown, take one fail step and leave
\* lookForLeader in its loop, where the next attempt is possible; lookForLeader
\* gives nothing back to the operation, which has not returned.
C14_UnknownLookupReturnsOnlyOnLeader ==
    /\ rpc.Method = "LeaderRequest" =>
         IF LeaderKnown
         THEN /\ pc = "callRPC"
              /\ leaderID = rpc.Out.Res.LeaderID
              /\ leaderID \in nl
              /\ leader = leaderID
              /\ backOffDuration = initBackOffDuration
              /\ sleeps = <<>>
              /\ ret = NoRet
         ELSE /\ pc = "lookForLeader"
              /\ leaderID = Nil
              /\ Len(sleeps) = 1
              /\ backOffDuration = Min(2 * sleeps[1], maxBackOffDuration)
              /\ ret = NoRet
              /\ ENABLED LookForLeaderAttempt
    /\ pc = "callRPC" => rpc = NoRPC \/ LeaderKnown

\* the first member answered that the last member is the leader
C14_Witness ==
    /\ LeaderKnown
    /\ rpc.To = 1
    /\ leaderID = NumNodes
    /\ leader = NumNodes
    /\ op = "ExecuteQueryRequest"

\* C15: an ActionRequest or QueryRequest is sent only with the cache set, to the
\* cached leader; when it ends in a transport error or a decline the cache is
\* unknown at the end of the same step, before any further RPC, and lookForLeader
\* runs next; and from an unknown cache lookForLeader returns only by a
\* LeaderRequest answered with a leader, so a LeaderRequest comes before the next
\* ActionRequest or QueryRequest.
C15_FailedRPCForcesLookup ==
    [][/\ pc = "callRPC" /\ clientVars' # clientVars =>
            /\ leaderID # Nil
            /\ leader = leaderID
            /\ rpc'.Method \in {"ActionRequest", "QueryRequest"}
            /\ rpc'.To = leaderID
            /\ RPCFailedOrDeclined' => leaderID' = Nil /\ pc' = "lookForLeader"
       /\ Looking /\ pc' = "callRPC" => LeaderKnown'
       /\ Looking /\ clientVars' # clientVars => rpc'.Method = "LeaderRequest"]_vars

\* an ActionRequest to the cached leader, the last member, was received and its
\* answer lost: the cache is unknown and lookForLeader runs next
C15_Witness ==
    /\ rpc.Method = "ActionRequest"
    /\ rpc.Out.Err
    /\ rpc.To = NumNodes
    /\ cmd.RequestID \in pending
    /\ leaderID = Nil
    /\ pc = "lookForLeader"

\* C16: a poll that does not return, whether its QueryRequest failed or was
\* answered without the RequestInfo of cmd, uses up exactly one of the
\* maxCheckCountBeforeRetry attempts of its round and takes exactly one fail step;
\* the LeaderRequests of a poll's lookForLeader use up no attempt.
C16_EveryUnconfirmedPollCountsOnce ==
    [][/\ /\ pc = "callRPC"
          /\ ctx = "checkActionRequest"
          /\ clientVars' # clientVars
          /\ pc' # "idle"
          => /\ PollStep'
             /\ ~PollMatched'
             /\ sleeps' = <<backOffDuration>>
             /\ backOffDuration' = Min(2 * backOffDuration, maxBackOffDuration)
             /\ IF i + 1 < maxCheckCountBeforeRetry
                THEN ctx' = "checkActionRequest" /\ i' = i + 1
                ELSE ctx' = "sendActionRequest"
       /\ pc = "lookForLeader" /\ ctx = "checkActionRequest" =>
            i' = i /\ ctx' = ctx]_vars

\* the fourth poll of a round failed in transport: one sleep, four attempts used
C16_Witness ==
    /\ PollStep
    /\ rpc.Out.Err
    /\ Len(sleeps) = 1
    /\ ctx = "checkActionRequest"
    /\ i = 4
    /\ polls = 4

\* C17: an ActionRequest that fails in transport or is declined leaves the cache
\* unknown, takes one fail step and leaves the operation about to send again, with
\* no poll in between, however many sends went before; an accepted ActionRequest
\* leaves the backoff at the floor and the poll loop at its first round. A poll is
\* made only after an ActionRequest of the current round was accepted.
C17_NoPollBeforeAcceptedSend ==
    /\ rpc.Method = "ActionRequest" =>
         IF RPCFailedOrDeclined
         THEN /\ ctx = "sendActionRequest"
              /\ pc = "lookForLeader"
              /\ leaderID = Nil
              /\ Len(sleeps) = 1
              /\ polls = -1
              /\ ret = NoRet
         ELSE /\ ctx = "checkActionRequest"
              /\ pc = "lookForLeader"
              /\ i = 0
              /\ polls = 0
              /\ backOffDuration = initBackOffDuration
              /\ sleeps = <<>>
    /\ ctx = "checkActionRequest" => polls \in 0 .. maxCheckCountBeforeRetry - 1
    /\ ctx = "sendActionRequest" => polls \in {-1, maxCheckCountBeforeRetry}
    /\ PollStep => polls >= 1

\* the resubmission after a round of six polls was declined: no poll follows until
\* a send is accepted
C17_Witness ==
    /\ rpc.Method = "ActionRequest"
    /\ ~rpc.Out.Err
    /\ ~rpc.Out.Res.Started
    /\ pollsAtSend = maxCheckCountBeforeRetry
    /\ polls = -1
    /\ ctx = "sendActionRequest"

\* C18: whenever the cache is set the backoff is at the floor. Hence the fail step
\* that follows an ActionRequest or a QueryRequest, whatever its outcome, sleeps
\* exactly initBackOffDuration, and a longer sleep is taken only after a
\* LeaderRequest that did not name a leader.
C18_CachedImpliesFloor ==
    /\ leaderID # Nil => backOffDuration = initBackOffDuration
    /\ rpc.Method \in {"ActionRequest", "QueryRequest"} =>
         \A k \in 1 .. Len(sleeps) : sleeps[k] = initBackOffDuration
    /\ (\E k \in 1 .. Len(sleeps) : sleeps[k] > initBackOffDuration) =>
         rpc.Method = "LeaderRequest" /\ ~LeaderKnown

\* a declined query of ExecuteQueryRequest: the fail step slept the floor
C18_Witness ==
    /\ op = "ExecuteQueryRequest"
    /\ rpc.Method = "QueryRequest"
    /\ ~rpc.Out.Err
    /\ ~rpc.Out.Res.Success
    /\ sleeps = <<initBackOffDuration>>
    /\ backOffDuration = 2 * initBackOffDuration

\* the last operation has returned
Returned == pc = "idle" /\ ret # NoRet

\* C19: when ExecuteActionRequest or ExecuteQueryRequest has returned, the cache
\* holds the node that answered the last RPC, a QueryRequest, and the backoff is at
\* the floor; the next operation starts with that cache, and with the cache set
\* lookForLeader makes no LeaderRequest, so the operation's first RPC is its
\* ActionRequest or QueryRequest.
C19_ReturnLeavesCacheSet ==
    /\ [](Returned =>
            /\ rpc.Method = "QueryRequest"
            /\ ~RPCFailedOrDeclined
            /\ leaderID \in nl
            /\ leaderID = rpc.To
            /\ backOffDuration = initBackOffDuration)
    /\ [][Returned /\ pc' # "idle" =>
            /\ pc' = "lookForLeader"
            /\ leaderID' = leaderID
            /\ backOffDuration' = backOffDuration]_vars
    /\ [](pc = "lookForLeader" /\ leaderID # Nil =>
            /\ ~ENABLED LookForLeaderAttempt
            /\ ENABLED LookForLeaderCached)

\* the second action's ActionRequest is about to go to the leader the first
\* operation left in the cache, with no LeaderRequest made for it
C19_Witness ==
    /\ pc = "callRPC"
    /\ ctx = "sendActionRequest"
    /\ rpc = NoRPC
    /\ cmd.RequestID = 2
    /\ leader = NumNodes
    /\ leaderID = leader

\* caller c is about to read core.leaderID for lookForLeader's return value, and
\* the cache is unknown
ReadsClearedCache(c) ==
    /\ at[c] \in {"lookForLeader:262", "lookForLeader:268"}
    /\ leaderID = Nil

\* C20: with two callers interleaved on one ClientCore, a caller that has passed
\* lookForLeader's check of the cache can find the cache unknown when it reads it
\* for its return value, and the read then panics; this happens only after the
\* fail step of the other caller cleared the cache, never by the caller's own
\* steps.
C20_ClearedOnlyByOtherCaller ==
    \A c \in Callers :
      ReadsClearedCache(c) \/ at[c] = "panic" => cleared \in Callers \ {c}

\* a caller has passed the loop condition of line 251 with the cache set and is at
\* line 268, and the other caller's fail step has cleared the cache since
C20_Witness ==
    \E c \in Callers :
      /\ at[c] = "lookForLeader:268"
      /\ leaderID = Nil
      /\ cleared \in Callers \ {c}
      /\ at[cleared] \in {"logErrAndBackoff:285", "logErrAndBackoff:285w", "lookForLeader:251",
                          "lookForLeader:253"}
====
